---- MODULE Spec2Model ----
(***************************************************************************)
(* GrimoirePlot: the persistence layer (grimoireplot/models.py), the HTTP  *)
(* endpoints (grimoireplot/server.py) and the registry of refreshable      *)
(* chapter grids of the dashboard (grimoireplot/ui.py).                    *)
(*                                                                         *)
(* The three tables are sets of rows.  In Spec a request is handled to    *)
(* completion by one action; the clock `now` ticks once per handled        *)
(* request.  StepSpec runs one handler statement per step, with database   *)
(* errors and the retry wrapper; RaceSpec runs the handlers of concurrent  *)
(* requests; PageSpec tracks what several open pages show; RenderSpec      *)
(* renders one chapter grid; ClientSpec runs the push functions of         *)
(* grimoireplot/client.py.                                                 *)
(***************************************************************************)
EXTENDS Integers, FiniteSets, Sequences, TLC

\* ------------------------------------------------------------------ bounds

\* Requests handled in one behaviour (also the range of the clock).
MaxRequests == 3

\* Dashboard pages opened in one behaviour.
MaxPages == 1

\* Requests handled in one behaviour of StepSpec.
MaxStepRequests == 3

GrimoireNames == {"g1", "g2"}
ChapterNames  == {"c1", "c2"}
PlotNames     == {"p1", "p2"}
\* Payloads: one that json.loads parses and one that it does not.
JsonData      == {"{\"a\":1}", "not json"}

\* ------------------------------------------------------- configuration

\* common.py: the secret used when GRIMOIRE_SECRET is not set.
GRIMOIRE_SECRET == "IDidntSetASecret"

\* request.headers.get("grimoire-secret") of a request without the header.
None == "None"

\* The values of the grimoire-secret header a client may send.
Headers == {None, "wrong-secret", GRIMOIRE_SECRET}

VARIABLES
    grimoire,   \* table grimoire: rows [name]
    chapter,    \* table chapter: rows [name, grimoire_name]
    plot,       \* table plot: rows [name, chapter_name, grimoire_name, json_data, created_at]
    now,        \* datetime.now(): one tick per handled request
    request,    \* the request handled last
    response,   \* its HTTP response
    refresh,    \* the UI refresh it issued and the chapter grids that rendered
    pages,      \* number of dashboard pages opened (targets of dashboard_ui)
    chapter_plot_refreshables,  \* keys of ui._chapter_plot_refreshables
    pc,         \* StepSpec: position in the handler of the request in flight, 0 when none
    attempt,    \* StepSpec: number of the current call of the handler for this request
    slept,      \* StepSpec: the time.sleep delays of this request, in milliseconds
    log,        \* StepSpec: commits done and refreshes issued by the current attempt
    client,     \* ClientSpec: the call of push_plot_sync or push_plot in progress
    render,     \* RenderSpec: the render of one chapter grid in progress
    threads,    \* RaceSpec: the requests handled concurrently, one record per thread
    dashboards  \* PageSpec: what each open page shows and which page owns each refreshable

vars == <<grimoire, chapter, plot, now, request, response, refresh, pages,
          chapter_plot_refreshables, pc, attempt, slept, log, client, render,
          threads, dashboards>>

\* The variables that only StepSpec changes.
stepvars == <<pc, attempt, slept, log>>

\* The variables that neither Spec nor StepSpec changes.
othervars == <<client, render, threads, dashboards>>

\* The storage as one value, for the operators of models.py.
DB == [grimoire |-> grimoire, chapter |-> chapter, plot |-> plot]

\* ------------------------------------------------------------ models.py

\* class Grimoire: primary key (name).
Grimoire(name) == [name |-> name]

\* class Chapter: primary key (name, grimoire_name).
Chapter(name, grimoire_name) == [name |-> name, grimoire_name |-> grimoire_name]

\* class Plot: primary key (name, chapter_name, grimoire_name);
\* created_at defaults to datetime.now() when the object is constructed.
Plot(name, chapter_name, grimoire_name, json_data, created_at) ==
    [name |-> name, chapter_name |-> chapter_name, grimoire_name |-> grimoire_name,
     json_data |-> json_data, created_at |-> created_at]

\* session.get(Grimoire, grimoire_name): the rows with that primary key.
GetGrimoire(db, grimoire_name) ==
    {r \in db.grimoire : r.name = grimoire_name}

\* session.get(Chapter, (chapter_name, grimoire_name)).
GetChapter(db, grimoire_name, chapter_name) ==
    {r \in db.chapter : r.name = chapter_name /\ r.grimoire_name = grimoire_name}

\* Mutant of GetPlot: the row is looked up by the plot name alone.
GetPlot_ByNameOnly(db, grimoire_name, chapter_name, plot_name) ==
    {r \in db.plot : r.name = plot_name}

\* session.get(Plot, (plot_name, chapter_name, grimoire_name)).
GetPlot(db, grimoire_name, chapter_name, plot_name) ==
    {r \in db.plot : /\ r.name = plot_name
                     /\ r.chapter_name = chapter_name
                     /\ r.grimoire_name = grimoire_name}

\* add_plot, first commit: get or create the Grimoire.
AddPlotGrimoire(db, grimoire_name) ==
    IF GetGrimoire(db, grimoire_name) = {}
    THEN [db EXCEPT !.grimoire = @ \cup {Grimoire(grimoire_name)}]
    ELSE db

\* add_plot, second commit: get or create the Chapter.
AddPlotChapter(db, grimoire_name, chapter_name) ==
    IF GetChapter(db, grimoire_name, chapter_name) = {}
    THEN [db EXCEPT !.chapter = @ \cup {Chapter(chapter_name, grimoire_name)}]
    ELSE db

\* Mutant of AddPlotPlot: a new row is inserted whether or not one exists.
AddPlotPlot_AlwaysInsert(db, grimoire_name, chapter_name, plot_name, json_data, t) ==
    [db EXCEPT !.plot =
       @ \cup {Plot(plot_name, chapter_name, grimoire_name, json_data, t)}]

\* Mutant of AddPlotPlot: a row that exists is left as it is.
AddPlotPlot_KeepFirst(db, grimoire_name, chapter_name, plot_name, json_data, t) ==
    IF GetPlot(db, grimoire_name, chapter_name, plot_name) = {}
    THEN [db EXCEPT !.plot =
            @ \cup {Plot(plot_name, chapter_name, grimoire_name, json_data, t)}]
    ELSE db

\* add_plot, third commit: insert the Plot, or set json_data of the row found
\* (created_at is a column default: it is set on construction only).
AddPlotPlot(db, grimoire_name, chapter_name, plot_name, json_data, t) ==
    LET found == GetPlot(db, grimoire_name, chapter_name, plot_name) IN
    IF found = {}
    THEN [db EXCEPT !.plot =
            @ \cup {Plot(plot_name, chapter_name, grimoire_name, json_data, t)}]
    ELSE [db EXCEPT !.plot =
            (@ \ found) \cup {[r EXCEPT !.json_data = json_data] : r \in found}]

\* add_plot(grimoire_name, chapter_name, plot_name, json_data) called at time t:
\* the storage it leaves.
add_plot(db, grimoire_name, chapter_name, plot_name, json_data, t) ==
    AddPlotPlot(
        AddPlotChapter(AddPlotGrimoire(db, grimoire_name), grimoire_name, chapter_name),
        grimoire_name, chapter_name, plot_name, json_data, t)

\* Relationship Chapter.plots: the Plot rows that reference chapter row ch.
ChapterPlots(db, ch) ==
    {r \in db.plot : r.chapter_name = ch.name /\ r.grimoire_name = ch.grimoire_name}

\* Relationship Grimoire.chapters: the Chapter rows that reference grimoire row gr.
GrimoireChapters(db, gr) ==
    {r \in db.chapter : r.grimoire_name = gr.name}

\* Mutant of delete_plot: a chapter left without plots is deleted too.
delete_plot_DropEmptyChapter(db, grimoire_name, chapter_name, plot_name) ==
    LET found == GetPlot(db, grimoire_name, chapter_name, plot_name)
        left  == db.plot \ found
    IN
    IF found = {}
    THEN [ok |-> FALSE, db |-> db]
    ELSE [ok |-> TRUE,
          db |-> [db EXCEPT !.plot = left,
                            !.chapter = {ch \in @ :
                               \/ <<ch.grimoire_name, ch.name>> # <<grimoire_name, chapter_name>>
                               \/ \E r \in left : /\ r.chapter_name = ch.name
                                                  /\ r.grimoire_name = ch.grimoire_name}]]

\* Mutant of delete_plot: the rows deleted are matched without the chapter.
delete_plot_AnyChapter(db, grimoire_name, chapter_name, plot_name) ==
    LET found == GetPlot(db, grimoire_name, chapter_name, plot_name) IN
    IF found = {}
    THEN [ok |-> FALSE, db |-> db]
    ELSE [ok |-> TRUE,
          db |-> [db EXCEPT !.plot =
                    {r \in @ : ~(r.name = plot_name /\ r.grimoire_name = grimoire_name)}]]

\* delete_plot: [ok, db].
delete_plot(db, grimoire_name, chapter_name, plot_name) ==
    LET found == GetPlot(db, grimoire_name, chapter_name, plot_name) IN
    IF found = {}
    THEN [ok |-> FALSE, db |-> db]
    ELSE [ok |-> TRUE, db |-> [db EXCEPT !.plot = @ \ found]]

\* Mutant of delete_chapter: the relationship does not cascade to the plots.
delete_chapter_NoCascade(db, grimoire_name, chapter_name) ==
    LET found == GetChapter(db, grimoire_name, chapter_name) IN
    IF found = {}
    THEN [ok |-> FALSE, db |-> db]
    ELSE [ok |-> TRUE, db |-> [db EXCEPT !.chapter = @ \ found]]

\* delete_chapter: the chapter row and, by cascade_delete, its plots.
delete_chapter(db, grimoire_name, chapter_name) ==
    LET found == GetChapter(db, grimoire_name, chapter_name) IN
    IF found = {}
    THEN [ok |-> FALSE, db |-> db]
    ELSE [ok |-> TRUE,
          db |-> [db EXCEPT !.chapter = @ \ found,
                            !.plot = @ \ UNION {ChapterPlots(db, ch) : ch \in found}]]

\* Mutant of delete_grimoire: the commit deletes the descendants and leaves
\* the grimoire row to a later commit.
delete_grimoire_ChildrenFirst(db, grimoire_name) ==
    LET found == GetGrimoire(db, grimoire_name)
        chs   == UNION {GrimoireChapters(db, gr) : gr \in found}
    IN
    IF found = {}
    THEN [ok |-> FALSE, db |-> db]
    ELSE [ok |-> TRUE,
          db |-> [grimoire |-> db.grimoire,
                  chapter  |-> db.chapter \ chs,
                  plot     |-> db.plot \ UNION {ChapterPlots(db, ch) : ch \in chs}]]

\* Mutant of delete_grimoire: the cascade stops at the chapters.
delete_grimoire_ChaptersOnly(db, grimoire_name) ==
    LET found == GetGrimoire(db, grimoire_name) IN
    IF found = {}
    THEN [ok |-> FALSE, db |-> db]
    ELSE [ok |-> TRUE,
          db |-> [db EXCEPT !.grimoire = @ \ found,
                            !.chapter = @ \ UNION {GrimoireChapters(db, gr) : gr \in found}]]

\* delete_grimoire: the grimoire row, by cascade_delete its chapters, and by
\* their cascade_delete the plots of those chapters.
delete_grimoire(db, grimoire_name) ==
    LET found == GetGrimoire(db, grimoire_name)
        chs   == UNION {GrimoireChapters(db, gr) : gr \in found}
    IN
    IF found = {}
    THEN [ok |-> FALSE, db |-> db]
    ELSE [ok |-> TRUE,
          db |-> [grimoire |-> db.grimoire \ found,
                  chapter  |-> db.chapter \ chs,
                  plot     |-> db.plot \ UNION {ChapterPlots(db, ch) : ch \in chs}]]

\* Mutant of get_plots_for_chapter: the where clause omits grimoire_name.
get_plots_for_chapter_ChapterOnly(db, grimoire_name, chapter_name) ==
    {r \in db.plot : r.chapter_name = chapter_name}

\* get_plots_for_chapter: select(Plot).where(chapter_name == .., grimoire_name == ..).
get_plots_for_chapter(db, grimoire_name, chapter_name) ==
    {r \in db.plot : r.chapter_name = chapter_name /\ r.grimoire_name = grimoire_name}

\* get_all_grimoires: the grimoire rows, each with its chapters loaded.
get_all_grimoires(db) == db.grimoire

\* ---------------------------------------------------------------- ui.py

\* refresh_chapter_plots: TRUE iff the key is in the registry (and then the
\* refreshable of that chapter is refreshed).
refresh_chapter_plots(registry, grimoire_name, chapter_name) ==
    <<grimoire_name, chapter_name>> \in registry

\* dashboard_ui run on storage db: the registry is cleared, then render_grimoire
\* and render_chapter register every chapter of every grimoire.
dashboard_ui(db) ==
    UNION {{<<gr.name, ch.name>> : ch \in GrimoireChapters(db, gr)} :
             gr \in get_all_grimoires(db)}

\* chapter_plots_ui of chapter key k: the grid shows get_plots_for_chapter.
chapter_plots_ui(db, k) == get_plots_for_chapter(db, k[1], k[2])

\* A refresh record: its kind, the grimoire tabs it rendered and, for every
\* chapter grid it rendered (one per chapter tab), the plots shown.
NoRefresh == [kind |-> "none", tabs |-> {}, grids |-> [k \in {} |-> {}]]

\* _chapter_plot_refreshables[key].refresh(): that chapter's grid is rendered again.
ChapterRefresh(db, k) ==
    [kind |-> "chapter", tabs |-> {},
     grids |-> [x \in {k} |-> chapter_plots_ui(db, x)]]

\* dashboard_ui.refresh(): every open page runs dashboard_ui again, which
\* renders a tab per grimoire and the grid of every chapter; with no page open
\* nothing is rendered.
FullRefresh(db, npages) ==
    [kind |-> "full",
     tabs |-> IF npages > 0 THEN {gr.name : gr \in get_all_grimoires(db)} ELSE {},
     grids |-> [k \in (IF npages > 0 THEN dashboard_ui(db) ELSE {}) |->
                  chapter_plots_ui(db, k)]]

\* The registry after dashboard_ui.refresh(): with no page open it is left as it is.
DashboardRefresh(registry, db, npages) ==
    IF npages > 0 THEN dashboard_ui(db) ELSE registry

\* ------------------------------------------------------------- server.py

\* Mutant of verify_secret: only the presence of the header is checked.
verify_secret_PresenceOnly(header) ==
    IF header = None THEN 401 ELSE 0

\* verify_secret: the status of the HTTPException raised, 0 when none is.
verify_secret(header) ==
    IF header = None THEN 401
    ELSE IF header # GRIMOIRE_SECRET THEN 403
    ELSE 0

Detail(status) ==
    CASE status = 401 -> "grimoire-secret not found"
      [] status = 403 -> "invalid grimoire-secret"
      [] OTHER -> ""

Error(status, detail) == [status |-> status, detail |-> detail]

Success(field, value) ==
    [status |-> 200, body |-> [status |-> "success", field |-> field, value |-> value]]

NoRequest == [op |-> "none"]

\* No client call is in progress.
NoCall == [pc |-> "idle"]

\* The server after construction: empty storage, no page, nothing registered.
ServerInit ==
    /\ grimoire = {}
    /\ chapter = {}
    /\ plot = {}
    /\ now = 0
    /\ request = NoRequest
    /\ response = [status |-> 0]
    /\ refresh = NoRefresh
    /\ pages = 0
    /\ chapter_plot_refreshables = {}
    /\ pc = 0
    /\ attempt = 0
    /\ slept = << >>
    /\ log = << >>

\* No grid is being rendered.
NoRender == [pc |-> "idle"]

\* No request is handled concurrently.
NoThreads == << >>

\* No page is tracked.
NoDashboards == [pages |-> << >>, owner |-> << >>]

\* The state after construction.
Init ==
    /\ ServerInit
    /\ client = NoCall
    /\ render = NoRender
    /\ threads = NoThreads
    /\ dashboards = NoDashboards

Store(db) ==
    /\ grimoire' = db.grimoire
    /\ chapter' = db.chapter
    /\ plot' = db.plot

\* Mutant of AddPlotHandler: a payload that is not JSON is refused.
AddPlotHandler_RejectsNonJson(db, registry, npages, req, t) ==
    LET auth == verify_secret(req.secret)
        db2  == add_plot(db, req.grimoire_name, req.chapter_name, req.plot_name,
                         req.json_data, t)
    IN
    IF auth # 0
    THEN [db |-> db, response |-> Error(auth, Detail(auth)),
          refresh |-> NoRefresh, registry |-> registry]
    ELSE IF req.json_data = "not json"
    THEN [db |-> db, response |-> Error(422, "invalid json_data"),
          refresh |-> NoRefresh, registry |-> registry]
    ELSE IF refresh_chapter_plots(registry, req.grimoire_name, req.chapter_name)
    THEN [db |-> db2, response |-> Success("plot_name", req.plot_name),
          refresh |-> ChapterRefresh(db2, <<req.grimoire_name, req.chapter_name>>),
          registry |-> registry]
    ELSE [db |-> db2, response |-> Success("plot_name", req.plot_name),
          refresh |-> FullRefresh(db2, npages),
          registry |-> DashboardRefresh(registry, db2, npages)]

\* Mutant of AddPlotHandler: add_plot runs before verify_secret.
AddPlotHandler_WriteBeforeVerify(db, registry, npages, req, t) ==
    LET auth == verify_secret(req.secret)
        db2  == add_plot(db, req.grimoire_name, req.chapter_name, req.plot_name,
                         req.json_data, t)
    IN
    IF auth # 0
    THEN [db |-> db2, response |-> Error(auth, Detail(auth)),
          refresh |-> NoRefresh, registry |-> registry]
    ELSE IF refresh_chapter_plots(registry, req.grimoire_name, req.chapter_name)
    THEN [db |-> db2, response |-> Success("plot_name", req.plot_name),
          refresh |-> ChapterRefresh(db2, <<req.grimoire_name, req.chapter_name>>),
          registry |-> registry]
    ELSE [db |-> db2, response |-> Success("plot_name", req.plot_name),
          refresh |-> FullRefresh(db2, npages),
          registry |-> DashboardRefresh(registry, db2, npages)]

\* What add_plot_endpoint does with the request: [db, response, refresh, registry].
AddPlotHandler(db, registry, npages, req, t) ==
    LET auth == verify_secret(req.secret) IN
    IF auth # 0
    THEN [db |-> db, response |-> Error(auth, Detail(auth)),
          refresh |-> NoRefresh, registry |-> registry]
    ELSE
      LET db2 == add_plot(db, req.grimoire_name, req.chapter_name, req.plot_name,
                          req.json_data, t)
      IN
      IF refresh_chapter_plots(registry, req.grimoire_name, req.chapter_name)
      THEN [db |-> db2, response |-> Success("plot_name", req.plot_name),
            refresh |-> ChapterRefresh(db2, <<req.grimoire_name, req.chapter_name>>),
            registry |-> registry]
      ELSE [db |-> db2, response |-> Success("plot_name", req.plot_name),
            refresh |-> FullRefresh(db2, npages),
            registry |-> DashboardRefresh(registry, db2, npages)]

\* Mutant of DeleteHandler: the dashboard is refreshed from the storage read
\* before the delete.
DeleteHandler_RefreshStale(db, registry, npages, req, deleted, what, name) ==
    LET auth == verify_secret(req.secret) IN
    IF auth # 0
    THEN [db |-> db, response |-> Error(auth, Detail(auth)),
          refresh |-> NoRefresh, registry |-> registry]
    ELSE IF ~deleted.ok
    THEN [db |-> db, response |-> Error(404, what),
          refresh |-> NoRefresh, registry |-> registry]
    ELSE [db |-> deleted.db, response |-> Success("deleted", name),
          refresh |-> FullRefresh(db, npages),
          registry |-> DashboardRefresh(registry, db, npages)]

\* Mutant of DeleteHandler: dashboard_ui.refresh() runs before the result of
\* the persistence delete is looked at.
DeleteHandler_RefreshFirst(db, registry, npages, req, deleted, what, name) ==
    LET auth == verify_secret(req.secret) IN
    IF auth # 0
    THEN [db |-> db, response |-> Error(auth, Detail(auth)),
          refresh |-> NoRefresh, registry |-> registry]
    ELSE IF ~deleted.ok
    THEN [db |-> db, response |-> Error(404, what),
          refresh |-> FullRefresh(db, npages),
          registry |-> DashboardRefresh(registry, db, npages)]
    ELSE [db |-> deleted.db, response |-> Success("deleted", name),
          refresh |-> FullRefresh(deleted.db, npages),
          registry |-> DashboardRefresh(registry, deleted.db, npages)]

\* What a delete endpoint does, given the result of its persistence delete.
DeleteHandler(db, registry, npages, req, deleted, what, name) ==
    LET auth == verify_secret(req.secret) IN
    IF auth # 0
    THEN [db |-> db, response |-> Error(auth, Detail(auth)),
          refresh |-> NoRefresh, registry |-> registry]
    ELSE IF ~deleted.ok
    THEN [db |-> db, response |-> Error(404, what),
          refresh |-> NoRefresh, registry |-> registry]
    ELSE [db |-> deleted.db, response |-> Success("deleted", name),
          refresh |-> FullRefresh(deleted.db, npages),
          registry |-> DashboardRefresh(registry, deleted.db, npages)]

Respond(req, out) ==
    /\ request' = req
    /\ response' = out.response
    /\ refresh' = out.refresh
    /\ chapter_plot_refreshables' = out.registry
    /\ Store(out.db)
    /\ now' = now + 1
    /\ UNCHANGED <<pages, othervars, stepvars>>

\* POST /add_plot.  No storage operation raises in this specification, so the
\* first attempt of retry_on_db_error returns or raises the HTTPException.
add_plot_endpoint ==
    /\ now < MaxRequests
    /\ \E g \in GrimoireNames, c \in ChapterNames, p \in PlotNames,
          j \in JsonData, h \in Headers :
         LET req == [op |-> "add_plot", grimoire_name |-> g, chapter_name |-> c,
                     plot_name |-> p, json_data |-> j, secret |-> h, at |-> now]
         IN Respond(req, AddPlotHandler(DB, chapter_plot_refreshables, pages, req, now))

\* DELETE /grimoire/{grimoire_name}/chapter/{chapter_name}/plot/{plot_name}
delete_plot_endpoint ==
    /\ now < MaxRequests
    /\ \E g \in GrimoireNames, c \in ChapterNames, p \in PlotNames, h \in Headers :
         LET req == [op |-> "delete_plot", grimoire_name |-> g, chapter_name |-> c,
                     plot_name |-> p, secret |-> h, at |-> now]
         IN Respond(req, DeleteHandler(DB, chapter_plot_refreshables, pages, req,
                                       delete_plot(DB, g, c, p), "Plot not found", p))

\* DELETE /grimoire/{grimoire_name}/chapter/{chapter_name}
delete_chapter_endpoint ==
    /\ now < MaxRequests
    /\ \E g \in GrimoireNames, c \in ChapterNames, h \in Headers :
         LET req == [op |-> "delete_chapter", grimoire_name |-> g, chapter_name |-> c,
                     secret |-> h, at |-> now]
         IN Respond(req, DeleteHandler(DB, chapter_plot_refreshables, pages, req,
                                       delete_chapter(DB, g, c), "Chapter not found", c))

\* DELETE /grimoire/{grimoire_name}
delete_grimoire_endpoint ==
    /\ now < MaxRequests
    /\ \E g \in GrimoireNames, h \in Headers :
         LET req == [op |-> "delete_grimoire", grimoire_name |-> g,
                     secret |-> h, at |-> now]
         IN Respond(req, DeleteHandler(DB, chapter_plot_refreshables, pages, req,
                                       delete_grimoire(DB, g), "Grimoire not found", g))

\* GET /: a browser opens the dashboard; page() runs dashboard_ui.
page ==
    /\ pages < MaxPages
    /\ pages' = pages + 1
    /\ chapter_plot_refreshables' = dashboard_ui(DB)
    /\ UNCHANGED <<grimoire, chapter, plot, now, request, response, refresh, stepvars,
                   othervars>>

Next ==
    \/ add_plot_endpoint
    \/ delete_plot_endpoint
    \/ delete_chapter_endpoint
    \/ delete_grimoire_endpoint
    \/ page

Spec == Init /\ [][Next]_vars

\* ------------------------------------------------- server.py, step by step
\*
\* StepSpec handles one request at a time, one statement of the handler per
\* step.  Every storage operation, and every refresh that renders from
\* storage, either succeeds or raises a database error; add_plot_endpoint is
\* wrapped by retry_on_db_error(max_retries=5), the delete endpoints are not.

\* @retry_on_db_error(max_retries=5)
max_retries == 5

\* base_delay = 0.1 seconds, in milliseconds.
base_delay == 100

StepGrimoireNames == {"g1"}
StepChapterNames  == {"c1", "c2"}
\* The plot names of AddPlotRequest: any str, the empty one included.
StepPlotNames     == {"p1", ""}

\* The requests of StepSpec.
StepRequests ==
    [op : {"add_plot"}, grimoire_name : StepGrimoireNames,
     chapter_name : StepChapterNames, plot_name : StepPlotNames,
     json_data : JsonData, secret : Headers]
    \cup [op : {"delete_plot"}, grimoire_name : StepGrimoireNames,
          chapter_name : StepChapterNames, plot_name : StepPlotNames \ {""},
          secret : Headers]
    \cup [op : {"delete_chapter"}, grimoire_name : StepGrimoireNames,
          chapter_name : StepChapterNames, secret : Headers]
    \cup [op : {"delete_grimoire"}, grimoire_name : StepGrimoireNames, secret : Headers]

\* Mutant of AddPlotProgram: the Chapter is created before the Grimoire.
AddPlotProgram_ChapterFirst ==
    <<"verify", "chapter", "grimoire", "plot", "refresh", "return">>

\* Mutant of AddPlotProgram: the refresh is issued before add_plot is called.
AddPlotProgram_RefreshFirst ==
    <<"verify", "refresh", "grimoire", "chapter", "plot", "return">>

\* The statements of add_plot_endpoint in order: verify_secret, the three
\* commits of add_plot, the refresh, the return.
AddPlotProgram ==
    <<"verify", "grimoire", "chapter", "plot", "refresh", "return">>

\* The statements of a delete endpoint in order.
DeleteProgram == <<"verify", "delete", "refresh", "return">>

Program(op) == IF op = "add_plot" THEN AddPlotProgram ELSE DeleteProgram

\* The handler of the request in flight is at statement step.
At(step) == pc > 0 /\ Program(request.op)[pc] = step

\* Only add_plot_endpoint is decorated with retry_on_db_error.
Wrapped(op) == op = "add_plot"

\* Mutant of Retried: the wrapper has no `except HTTPException: raise`.
Retried_AnyException(exc) == TRUE

\* wrapper: an HTTPException is re-raised at once, any other exception is
\* handled by the retry branch.
Retried(exc) == exc # "HTTPException"

\* Mutant of ShouldRetry: a failed attempt is never retried.
ShouldRetry_Never(n) == FALSE

\* Mutant of ShouldRetry: the last attempt is retried once more.
ShouldRetry_OffByOne(n) == n <= max_retries

\* wrapper: `if attempt < max_retries`.
ShouldRetry(n) == n < max_retries

\* Mutant of Delay: the delay grows by base_delay per attempt.
Delay_Linear(n) == base_delay * n

\* wrapper: delay = base_delay * (2 ** (attempt - 1)).
Delay(n) == base_delay * 2 ^ (n - 1)

\* Exception exc leaves the handler after the statement logged events: the
\* wrapper sleeps and calls the handler again, or the exception propagates
\* and resp is the response.
Raise(exc, resp, events) ==
    IF Wrapped(request.op) /\ Retried(exc) /\ ShouldRetry(attempt)
    THEN /\ slept' = Append(slept, Delay(attempt))
         /\ attempt' = attempt + 1
         /\ pc' = 1
         /\ log' = << >>
         /\ UNCHANGED response
    ELSE /\ response' = resp
         /\ pc' = 0
         /\ log' = log \o events
         /\ UNCHANGED <<attempt, slept>>

ServerError == Error(500, "Internal Server Error")

\* A request arrives and the handler is called for the first time.
Receive ==
    /\ pc = 0
    /\ now < MaxStepRequests
    /\ \E r \in StepRequests :
         request' = [x \in DOMAIN r \cup {"at"} |-> IF x = "at" THEN now ELSE r[x]]
    /\ now' = now + 1
    /\ response' = [status |-> 0]
    /\ refresh' = NoRefresh
    /\ pc' = 1
    /\ attempt' = 1
    /\ slept' = << >>
    /\ log' = << >>
    /\ UNCHANGED <<grimoire, chapter, plot, pages, othervars, chapter_plot_refreshables>>

\* verify_secret(request)
StepVerify ==
    /\ At("verify")
    /\ LET auth == verify_secret(request.secret) IN
       IF auth # 0
       THEN Raise("HTTPException", Error(auth, Detail(auth)), << >>)
       ELSE pc' = pc + 1 /\ UNCHANGED <<response, attempt, slept, log>>
    /\ UNCHANGED <<grimoire, chapter, plot, now, request, refresh, pages, othervars,
                   chapter_plot_refreshables>>

\* A storage statement raises: nothing of it is committed.
DbError ==
    /\ Raise("OperationalError", ServerError, << >>)
    /\ UNCHANGED <<grimoire, chapter, plot, now, request, refresh, pages, othervars,
                   chapter_plot_refreshables>>

\* A storage statement commits db; event is logged when it wrote.
Commit(db, events) ==
    /\ Store(db)
    /\ log' = log \o events
    /\ pc' = pc + 1
    /\ UNCHANGED <<now, request, response, refresh, pages, othervars,
                   chapter_plot_refreshables, attempt, slept>>

\* add_plot: get or create the Grimoire (models.py:115-120).
StepGrimoire ==
    /\ At("grimoire")
    /\ \/ LET db == AddPlotGrimoire(DB, request.grimoire_name) IN
          Commit(db, IF db # DB THEN <<"commit_grimoire">> ELSE << >>)
       \/ DbError

\* add_plot: get or create the Chapter (models.py:123-128).
StepChapter ==
    /\ At("chapter")
    /\ \/ LET db == AddPlotChapter(DB, request.grimoire_name, request.chapter_name) IN
          Commit(db, IF db # DB THEN <<"commit_chapter">> ELSE << >>)
       \/ DbError

\* add_plot: get, then insert or update the Plot, and commit (models.py:131-145).
StepPlot ==
    /\ At("plot")
    /\ \/ Commit(AddPlotPlot(DB, request.grimoire_name, request.chapter_name,
                             request.plot_name, request.json_data, request.at),
                 <<"commit_plot">>)
       \/ DbError

\* The persistence delete that the endpoint of request req calls.
DeleteCall(db, req) ==
    CASE req.op = "delete_plot" ->
           delete_plot(db, req.grimoire_name, req.chapter_name, req.plot_name)
      [] req.op = "delete_chapter" ->
           delete_chapter(db, req.grimoire_name, req.chapter_name)
      [] req.op = "delete_grimoire" ->
           delete_grimoire(db, req.grimoire_name)

\* The detail of the 404 of the endpoint of request req.
NotFound(req) ==
    CASE req.op = "delete_plot" -> "Plot not found"
      [] req.op = "delete_chapter" -> "Chapter not found"
      [] req.op = "delete_grimoire" -> "Grimoire not found"

\* The body returned by the endpoint of request req.
Returned(req) ==
    CASE req.op = "add_plot" -> Success("plot_name", req.plot_name)
      [] req.op = "delete_plot" -> Success("deleted", req.plot_name)
      [] req.op = "delete_chapter" -> Success("deleted", req.chapter_name)
      [] req.op = "delete_grimoire" -> Success("deleted", req.grimoire_name)

\* if not delete_x(...): raise HTTPException(status_code=404, ...)
StepDelete ==
    /\ At("delete")
    /\ \/ LET res == DeleteCall(DB, request) IN
          IF res.ok
          THEN Commit(res.db, <<"commit_delete">>)
          ELSE /\ Raise("HTTPException", Error(404, NotFound(request)), << >>)
               /\ UNCHANGED <<grimoire, chapter, plot, now, request, refresh, pages, othervars,
                              chapter_plot_refreshables>>
       \/ DbError

\* Mutant of RefreshCalls: the full refresh is issued after the targeted one too.
RefreshCalls_Both(req, registry) ==
    IF req.op = "add_plot"
         /\ refresh_chapter_plots(registry, req.grimoire_name, req.chapter_name)
    THEN <<"chapter", "full">>
    ELSE <<"full">>

\* The refreshes that the endpoint of request req issues after its write:
\* add_plot_endpoint the targeted one when refresh_chapter_plots finds the
\* key, else dashboard_ui.refresh(); a delete endpoint dashboard_ui.refresh().
RefreshCalls(req, registry) ==
    IF req.op = "add_plot"
         /\ refresh_chapter_plots(registry, req.grimoire_name, req.chapter_name)
    THEN <<"chapter">>
    ELSE <<"full">>

\* The refresh record of a refresh of kind k for request req on storage db.
RefreshOf(k, db, npages, req) ==
    IF k = "chapter"
    THEN ChapterRefresh(db, <<req.grimoire_name, req.chapter_name>>)
    ELSE FullRefresh(db, npages)

\* The events logged for a sequence of refresh kinds.
RefreshEvents(ks) == [i \in DOMAIN ks |-> IF ks[i] = "chapter" THEN "refresh_chapter"
                                                             ELSE "refresh_full"]

\* The refresh statement: the refreshes are issued and render from storage.
\* A render that reads storage may raise (only an open page renders); a full
\* render that raises has cleared the registry and registered the chapters it
\* got to.
StepRefresh ==
    /\ At("refresh")
    /\ LET ks == RefreshCalls(request, chapter_plot_refreshables)
           last == ks[Len(ks)]
           full == \E i \in DOMAIN ks : ks[i] = "full"
       IN
       /\ \/ /\ refresh' = RefreshOf(last, DB, pages, request)
             /\ log' = log \o RefreshEvents(ks)
             /\ chapter_plot_refreshables' =
                  IF full THEN DashboardRefresh(chapter_plot_refreshables, DB, pages)
                          ELSE chapter_plot_refreshables
             /\ pc' = pc + 1
             /\ UNCHANGED <<response, attempt, slept>>
          \/ /\ pages > 0
             /\ refresh' = [kind |-> last, tabs |-> {}, grids |-> [k \in {} |-> {}]]
             /\ IF ks[1] = "full"
                THEN chapter_plot_refreshables' \in SUBSET dashboard_ui(DB)
                ELSE UNCHANGED chapter_plot_refreshables
             /\ Raise("OperationalError", ServerError, RefreshEvents(ks))
    /\ UNCHANGED <<grimoire, chapter, plot, now, request, pages, othervars>>

\* return {"status": "success", ...}
StepReturn ==
    /\ At("return")
    /\ response' = Returned(request)
    /\ pc' = 0
    /\ UNCHANGED <<grimoire, chapter, plot, now, request, refresh, pages, othervars,
                   chapter_plot_refreshables, attempt, slept, log>>

StepNext ==
    \/ Receive
    \/ StepVerify
    \/ StepGrimoire
    \/ StepChapter
    \/ StepPlot
    \/ StepDelete
    \/ StepRefresh
    \/ StepReturn
    \/ page

StepSpec == Init /\ [][StepNext]_vars

\* ------------------------------------------------------------ client.py

\* ClientSpec runs one call of push_plot_sync or push_plot, one statement per
\* step, against a server that answers POST /add_plot with any of the
\* statuses the application produces.

ClientFunctions == {"push_plot_sync", "push_plot"}

\* What fig.to_json() returns: a str, or a value that is not a str.
FigToJson == [type : {"str"}, value : JsonData] \cup {[type |-> "NoneType"]}

GrimoireSecrets == {GRIMOIRE_SECRET, "wrong-secret"}
GrimoireServers == {"http://localhost:8080", "http://grimoire.example"}

\* The statuses of the responses to POST /add_plot: success, verify_secret's
\* 401 and 403, the validation error of the request body, a server error.
ClientStatuses == {200, 401, 403, 422, 500}

\* The calls of ClientSpec, at their first statement.
ClientCalls ==
    [fn : ClientFunctions, grimoire_name : GrimoireNames,
     chapter_name : ChapterNames, plot_name : {"p1"}, fig : FigToJson,
     grimoire_secret : GrimoireSecrets, grimoire_server : GrimoireServers,
     pc : {"to_json"}, sent : {<< >>}, response : {[status |-> 0]},
     result : {[kind |-> "running"]}]

\* case str(): isinstance(json_data, str)
IsStr(json_data) == json_data.type = "str"

\* url, headers and payload of push_plot_json_sync and push_plot_json.
PostRequest(c) ==
    [method |-> "POST",
     url |-> c.grimoire_server \o "/add_plot",
     headers |-> [h \in {"grimoire-secret"} |-> c.grimoire_secret],
     json |-> [grimoire_name |-> c.grimoire_name,
               chapter_name |-> c.chapter_name,
               plot_name |-> c.plot_name,
               json_data |-> c.fig.value]]

\* The response of the server with the given status to the call c.
HttpResponse(status, c) ==
    IF status = 200
    THEN Success("plot_name", c.plot_name)
    ELSE [status |-> status, body |-> [detail |-> Detail(status)]]

\* Mutant of raise_for_status: the status is not looked at.
raise_for_status_Never(fn, status) == FALSE

\* response.raise_for_status(): requests raises HTTPError for a status in
\* 400..599, aiohttp raises ClientResponseError for a status of 400 or more.
raise_for_status(fn, status) ==
    IF fn = "push_plot_sync" THEN 400 <= status /\ status < 600
                             ELSE 400 <= status

\* The exception that raise_for_status raises.
StatusError(fn) ==
    IF fn = "push_plot_sync" THEN "requests.HTTPError"
                             ELSE "aiohttp.ClientResponseError"

ServerUnchanged ==
    UNCHANGED <<grimoire, chapter, plot, now, request, response, refresh, pages,
                chapter_plot_refreshables, stepvars, render, threads, dashboards>>

\* json_data = fig.to_json(); match json_data: the str goes on to
\* push_plot_json(_sync), anything else raises ValueError.
PushPlot ==
    /\ client.pc = "to_json"
    /\ client' = IF IsStr(client.fig)
                 THEN [client EXCEPT !.pc = "post"]
                 ELSE [client EXCEPT !.pc = "done",
                                     !.result = [kind |-> "raised",
                                                 exc |-> "ValueError"]]
    /\ ServerUnchanged

\* requests.post(url, headers=headers, json=payload) / session.post(...)
Post ==
    /\ client.pc = "post"
    /\ \E status \in ClientStatuses :
         client' = [client EXCEPT !.pc = "raise_for_status",
                                  !.sent = Append(@, PostRequest(client)),
                                  !.response = HttpResponse(status, client)]
    /\ ServerUnchanged

\* response.raise_for_status()
RaiseForStatus ==
    /\ client.pc = "raise_for_status"
    /\ client' = IF raise_for_status(client.fn, client.response.status)
                 THEN [client EXCEPT !.pc = "done",
                                     !.result = [kind |-> "raised",
                                                 exc |-> StatusError(client.fn)]]
                 ELSE [client EXCEPT !.pc = "json"]
    /\ ServerUnchanged

\* return response.json()
ReturnJson ==
    /\ client.pc = "json"
    /\ client' = [client EXCEPT !.pc = "done",
                                !.result = [kind |-> "returned",
                                            value |-> client.response.body]]
    /\ ServerUnchanged

ClientInit ==
    /\ ServerInit
    /\ client \in ClientCalls
    /\ render = NoRender
    /\ threads = NoThreads
    /\ dashboards = NoDashboards

ClientNext ==
    \/ PushPlot
    \/ Post
    \/ RaiseForStatus
    \/ ReturnJson

ClientSpec == ClientInit /\ [][ClientNext]_vars

\* ------------------------------------------------- ui.py: render_plot

\* RenderSpec renders the grid of one chapter, one plot per step.

\* Plots of the chapter that is rendered.
MaxPlots == 3

\* Stored payloads: a JSON object, a string that is not JSON, and JSON that
\* is not an object.
RenderPayloads == {"{\"a\":1}", "not json", "5"}

RenderNames == <<"p1", "p2", "p3", "p4">>

\* The lists that get_plots_for_chapter may return.
RenderPlots ==
    UNION {[1..n -> RenderPayloads] : n \in 0..MaxPlots}

\* json.loads(s): the type of the value parsed, or JSONDecodeError.
json_loads(s) ==
    CASE s = "{\"a\":1}" -> [raised |-> None, type |-> "dict"]
      [] s = "5" -> [raised |-> None, type |-> "int"]
      [] OTHER -> [raised |-> "JSONDecodeError", type |-> None]

\* create_plotly_chart(fig): `"layout" not in fig_data` and
\* `fig_data["layout"] = {}` need a dict.
create_plotly_chart(fig) ==
    IF fig.type = "dict" THEN [raised |-> None] ELSE [raised |-> "TypeError"]

\* Mutant of render_plot: no `except json.JSONDecodeError`.
render_plot_NoExcept(name, json_data) ==
    LET fig == json_loads(json_data) IN
    IF fig.raised # None
    THEN [cell |-> [kind |-> "none", text |-> name], raised |-> fig.raised]
    ELSE [cell |-> [kind |-> "plotly", text |-> name],
          raised |-> create_plotly_chart(fig).raised]

\* render_plot(plot, ...): the cell added to the grid and the exception that
\* leaves the function.
render_plot(name, json_data) ==
    LET fig == json_loads(json_data) IN
    IF fig.raised = "JSONDecodeError"
    THEN [cell |-> [kind |-> "label", text |-> "Invalid plot data: " \o name],
          raised |-> None]
    ELSE [cell |-> [kind |-> "plotly", text |-> name],
          raised |-> create_plotly_chart(fig).raised]

RenderUnchanged ==
    UNCHANGED <<grimoire, chapter, plot, now, request, response, refresh, pages,
                chapter_plot_refreshables, stepvars, client, threads, dashboards>>

\* chapter_plots_ui: plots = get_plots_for_chapter(...); the empty state when
\* there is none, else the grid.
ChapterPlotsUi ==
    /\ render.pc = "get"
    /\ render' = IF render.plots = << >>
                 THEN [render EXCEPT !.pc = "done",
                                     !.grid = <<[kind |-> "empty_state",
                                                 text |-> "No plots"]>>]
                 ELSE [render EXCEPT !.pc = "loop"]
    /\ RenderUnchanged

\* for plot in plots: render_plot(plot, grimoire_name, chapter_name)
RenderPlot ==
    /\ render.pc = "loop"
    /\ LET i == Len(render.grid) + 1
           out == render_plot(RenderNames[i], render.plots[i])
       IN render' = [render EXCEPT
                       !.grid = Append(@, out.cell),
                       !.raised = out.raised,
                       !.pc = IF out.raised # None \/ i = Len(render.plots)
                              THEN "done" ELSE "loop"]
    /\ RenderUnchanged

RenderInit ==
    /\ ServerInit
    /\ client = NoCall
    /\ render \in [pc : {"get"}, plots : RenderPlots, grid : {<< >>}, raised : {None}]
    /\ threads = NoThreads
    /\ dashboards = NoDashboards

RenderNext ==
    \/ ChapterPlotsUi
    \/ RenderPlot

RenderSpec == RenderInit /\ [][RenderNext]_vars

\* ------------------------------------------- concurrent endpoint handlers

\* RaceSpec runs the handlers of several requests on one key concurrently
\* (FastAPI runs `def` endpoints in a thread pool), one statement per step.
\* Each commit is one step; the database is the default SQLite one, which
\* enforces primary keys and does not enforce foreign keys.  No page is open,
\* and the only errors are those that the interleaving itself causes.

\* Requests handled concurrently.
MaxThreads == 2

RaceGrimoire == "g1"
RaceChapter  == "c1"
RacePlot     == "p1"

\* The payload of the request of thread t, and the payload stored before.
RacePayloads == <<"{\"a\":1}", "{\"b\":2}", "{\"c\":3}">>
StoredPayload == "{\"old\":0}"

RaceOps == {"add_plot", "delete_plot", "delete_chapter", "delete_grimoire"}

\* The storage when the requests arrive: empty, or holding the key.
RaceStorage ==
    {[grimoire |-> {}, chapter |-> {}, plot |-> {}],
     add_plot([grimoire |-> {}, chapter |-> {}, plot |-> {}],
              RaceGrimoire, RaceChapter, RacePlot, StoredPayload, 0)}

\* A handler about to run for the first time.  commits counts the commits of
\* the current attempt and writes the Plot writes of the request; between
\* records that a delete committed after a commit of a running add_plot
\* attempt and before the Plot commit of that attempt.
RaceThread(op, t) ==
    [op |-> op, json_data |-> RacePayloads[t], pc |-> "verify", attempt |-> 1,
     found |-> {}, commits |-> 0, writes |-> 0, between |-> FALSE, status |-> 0]

\* The statement of add_plot that follows statement st (models.py:115-147).
\* found tells whether the session.get of st returned a row.
AddPlotAfter(st, found) ==
    CASE st = "get_grimoire" -> IF found THEN "get_chapter" ELSE "commit_grimoire"
      [] st = "commit_grimoire" -> "refresh_grimoire"
      [] st = "refresh_grimoire" -> "get_chapter"
      [] st = "get_chapter" -> IF found THEN "get_plot" ELSE "commit_chapter"
      [] st = "commit_chapter" -> "refresh_chapter"
      [] st = "refresh_chapter" -> "get_plot"
      [] st = "get_plot" -> "commit_plot"
      [] st = "commit_plot" -> "refresh_plot"
      [] st = "refresh_plot" -> "ui_refresh"

\* The rows of the table that statement st reads or writes.
RaceRows(db, st) ==
    CASE st \in {"get_grimoire", "commit_grimoire", "refresh_grimoire"} ->
           GetGrimoire(db, RaceGrimoire)
      [] st \in {"get_chapter", "commit_chapter", "refresh_chapter"} ->
           GetChapter(db, RaceGrimoire, RaceChapter)
      [] OTHER -> GetPlot(db, RaceGrimoire, RaceChapter, RacePlot)

\* The row that the session.get of a delete operation looks up.
DeleteTarget(db, op) ==
    CASE op = "delete_grimoire" -> GetGrimoire(db, RaceGrimoire)
      [] op = "delete_chapter" -> GetChapter(db, RaceGrimoire, RaceChapter)
      [] op = "delete_plot" -> GetPlot(db, RaceGrimoire, RaceChapter, RacePlot)

\* Thread record th after exception exc left its handler: the wrapper of
\* add_plot_endpoint calls the handler again, or the request is answered.
RaceRaise(th, exc, status) ==
    IF Wrapped(th.op) /\ Retried(exc) /\ ShouldRetry(th.attempt)
    THEN [th EXCEPT !.attempt = @ + 1, !.pc = "verify", !.commits = 0]
    ELSE [th EXCEPT !.pc = "done", !.status = status]

RaceUnchanged ==
    UNCHANGED <<now, request, response, refresh, pages, chapter_plot_refreshables,
                stepvars, client, render, dashboards>>

\* Thread t moves to record th; storage is left as it is.
RaceLocal(t, th) ==
    /\ threads' = [threads EXCEPT ![t] = th]
    /\ UNCHANGED <<grimoire, chapter, plot>>
    /\ RaceUnchanged

\* Thread t commits storage db and moves to record th.
RaceCommit(t, th, db) ==
    /\ threads' = [threads EXCEPT ![t] = th]
    /\ Store(db)
    /\ RaceUnchanged

\* verify_secret(request): the requests of RaceSpec carry the right secret.
RaceVerify ==
    \E t \in DOMAIN threads :
      LET th == threads[t]
          auth == verify_secret(GRIMOIRE_SECRET)
      IN
      /\ th.pc = "verify"
      /\ RaceLocal(t, IF auth # 0
                      THEN RaceRaise(th, "HTTPException", auth)
                      ELSE [th EXCEPT !.pc = IF th.op = "add_plot"
                                             THEN "get_grimoire" ELSE "get"])

\* session.get(...): the row read is kept in th.found.  A delete operation
\* that finds nothing returns False and its endpoint raises the 404.
RaceGet ==
    \E t \in DOMAIN threads :
      LET th == threads[t] IN
      \/ /\ th.pc \in {"get_grimoire", "get_chapter", "get_plot"}
         /\ LET rows == RaceRows(DB, th.pc) IN
            RaceLocal(t, [th EXCEPT !.found = rows,
                                    !.pc = AddPlotAfter(th.pc, rows # {})])
      \/ /\ th.pc = "get"
         /\ LET rows == DeleteTarget(DB, th.op) IN
            RaceLocal(t, IF rows = {}
                         THEN RaceRaise(th, "HTTPException", 404)
                         ELSE [th EXCEPT !.found = rows, !.pc = "commit_delete"])

\* session.add(grimoire or chapter); session.commit(): the INSERT fails on
\* the primary key when the row has been inserted since the session.get.
RaceInsertParent ==
    \E t \in DOMAIN threads :
      LET th == threads[t] IN
      /\ th.pc \in {"commit_grimoire", "commit_chapter"}
      /\ IF RaceRows(DB, th.pc) # {}
         THEN RaceLocal(t, RaceRaise(th, "IntegrityError", 500))
         ELSE RaceCommit(t, [th EXCEPT !.pc = AddPlotAfter(th.pc, FALSE),
                                       !.commits = @ + 1],
                         IF th.pc = "commit_grimoire"
                         THEN AddPlotGrimoire(DB, RaceGrimoire)
                         ELSE AddPlotChapter(DB, RaceGrimoire, RaceChapter))

\* session.refresh(obj): raises InvalidRequestError when the row is gone.
RaceSessionRefresh ==
    \E t \in DOMAIN threads :
      LET th == threads[t] IN
      /\ th.pc \in {"refresh_grimoire", "refresh_chapter", "refresh_plot"}
      /\ RaceLocal(t, IF RaceRows(DB, th.pc) = {}
                      THEN RaceRaise(th, "InvalidRequestError", 500)
                      ELSE [th EXCEPT !.pc = AddPlotAfter(th.pc, TRUE)])

\* The Plot commit (models.py:132-144): an INSERT when the get found nothing,
\* which fails on the primary key when the row exists by now; else an UPDATE
\* of json_data, which fails with StaleDataError when the row is gone, and is
\* not emitted when the row read already holds the payload.
RaceCommitPlot ==
    \E t \in DOMAIN threads :
      LET th == threads[t]
          rows == RaceRows(DB, th.pc)
          written == AddPlotPlot(DB, RaceGrimoire, RaceChapter, RacePlot,
                                 th.json_data, now)
          after == [th EXCEPT !.pc = AddPlotAfter(th.pc, TRUE)]
      IN
      /\ th.pc = "commit_plot"
      /\ IF th.found = {}
         THEN IF rows # {}
              THEN RaceLocal(t, RaceRaise(th, "IntegrityError", 500))
              ELSE RaceCommit(t, [after EXCEPT !.writes = @ + 1, !.commits = @ + 1],
                                 written)
         ELSE IF \A r \in th.found : r.json_data = th.json_data
              THEN RaceLocal(t, after)
              ELSE IF rows = {}
                   THEN RaceLocal(t, RaceRaise(th, "StaleDataError", 500))
                   ELSE RaceCommit(t, [after EXCEPT !.writes = @ + 1, !.commits = @ + 1],
                                 written)

\* Thread record th is an add_plot attempt between two of its commits.
MidAddPlot(th) ==
    /\ th.op = "add_plot"
    /\ th.commits >= 1
    /\ th.pc \in {"refresh_grimoire", "get_chapter", "commit_chapter",
                  "refresh_chapter", "get_plot", "commit_plot"}

\* session.delete(obj); session.commit() of a delete operation: the row and
\* its descendants, or StaleDataError when the row is gone.
RaceCommitDelete ==
    \E t \in DOMAIN threads :
      LET th == threads[t]
          req == [op |-> th.op, grimoire_name |-> RaceGrimoire,
                  chapter_name |-> RaceChapter, plot_name |-> RacePlot]
      IN
      /\ th.pc = "commit_delete"
      /\ IF DeleteTarget(DB, th.op) = {}
         THEN RaceLocal(t, RaceRaise(th, "StaleDataError", 500))
         ELSE RaceCommit(t, [th EXCEPT !.pc = "ui_refresh",
                                       !.between = \E u \in DOMAIN threads :
                                                     MidAddPlot(threads[u])],
                         DeleteCall(DB, req).db)

\* The refresh statement: no page is open, nothing is rendered.
RaceUiRefresh ==
    \E t \in DOMAIN threads :
      /\ threads[t].pc = "ui_refresh"
      /\ RaceLocal(t, [threads[t] EXCEPT !.pc = "return"])

\* return {"status": "success", ...}
RaceReturn ==
    \E t \in DOMAIN threads :
      /\ threads[t].pc = "return"
      /\ RaceLocal(t, [threads[t] EXCEPT !.pc = "done", !.status = 200])

RaceInit ==
    /\ \E db \in RaceStorage :
         grimoire = db.grimoire /\ chapter = db.chapter /\ plot = db.plot
    /\ now = 0
    /\ request = NoRequest
    /\ response = [status |-> 0]
    /\ refresh = NoRefresh
    /\ pages = 0
    /\ chapter_plot_refreshables = {}
    /\ pc = 0
    /\ attempt = 0
    /\ slept = << >>
    /\ log = << >>
    /\ client = NoCall
    /\ render = NoRender
    /\ \E ops \in [1..MaxThreads -> RaceOps] :
         threads = [t \in 1..MaxThreads |-> RaceThread(ops[t], t)]
    /\ dashboards = NoDashboards

RaceNext ==
    \/ RaceVerify
    \/ RaceGet
    \/ RaceInsertParent
    \/ RaceSessionRefresh
    \/ RaceCommitPlot
    \/ RaceCommitDelete
    \/ RaceUiRefresh
    \/ RaceReturn

RaceSpec == RaceInit /\ [][RaceNext]_vars

\* ---------------------------------------------------- several open pages

\* PageSpec handles requests one at a time, each to completion, with several
\* dashboard pages open.  It records what every page shows and, for every key
\* of _chapter_plot_refreshables, the page whose render_chapter created the
\* refreshable that is registered.  Pages stay open.

\* Dashboard pages opened in one behaviour of PageSpec.
MaxDashboards == 2

\* Requests and dashboard delete actions in one behaviour of PageSpec.
MaxPageActions == 3

PageGrimoireNames == {"g1"}
PageChapterNames  == {"c1", "c2"}
PagePlotNames     == {"p1", "p2"}
PageSecrets       == {GRIMOIRE_SECRET, "wrong-secret"}

\* What one run of dashboard_ui renders on a page: a tab per grimoire and the
\* grid of every chapter.
PageRender(db) ==
    [tabs |-> FullRefresh(db, 1).tabs, grids |-> FullRefresh(db, 1).grids]

\* Mutant of PageFullRefresh: clear_all_chapter_refreshables is not called.
PageFullRefresh_NoClear(d, db) ==
    IF d.pages = << >>
    THEN d
    ELSE [pages |-> [i \in DOMAIN d.pages |-> PageRender(db)],
          owner |-> [k \in DOMAIN d.owner \cup dashboard_ui(db) |-> Len(d.pages)]]

\* dashboard_ui.refresh(): dashboard_ui runs again for every page, in the
\* order the pages were opened; each run clears the registry and registers
\* the refreshables it creates, so the last page owns them all.
PageFullRefresh(d, db) ==
    IF d.pages = << >>
    THEN d
    ELSE [pages |-> [i \in DOMAIN d.pages |-> PageRender(db)],
          owner |-> [k \in dashboard_ui(db) |-> Len(d.pages)]]

\* _chapter_plot_refreshables[key].refresh(): chapter_plots_ui runs again in
\* the page where the registered refreshable was created.
PageChapterRefresh(d, db, k) ==
    [d EXCEPT !.pages[d.owner[k]].grids[k] = chapter_plots_ui(db, k)]

\* refresh_chapter_plots(...) of add_plot_endpoint and of render_plot's
\* on_deleted; full tells whether dashboard_ui.refresh() follows when the key
\* is not registered.
PageRefresh(d, db, k, full) ==
    IF refresh_chapter_plots(DOMAIN d.owner, k[1], k[2])
    THEN PageChapterRefresh(d, db, k)
    ELSE IF full THEN PageFullRefresh(d, db) ELSE d

\* The step of PageSpec that handles req: storage db, response out, pages d.
PageStep(req, db, out, d) ==
    /\ now < MaxPageActions
    /\ request' = req
    /\ response' = out
    /\ Store(db)
    /\ dashboards' = d
    /\ chapter_plot_refreshables' = DOMAIN d.owner
    /\ now' = now + 1
    /\ UNCHANGED <<refresh, pages, stepvars, client, render, threads>>

\* POST /add_plot
PageAddPlot ==
    \E g \in PageGrimoireNames, c \in PageChapterNames, p \in PagePlotNames,
       j \in JsonData, secret \in PageSecrets :
      LET req == [op |-> "add_plot", grimoire_name |-> g, chapter_name |-> c,
                  plot_name |-> p, json_data |-> j, secret |-> secret]
          auth == verify_secret(secret)
          db == add_plot(DB, g, c, p, j, now)
      IN
      IF auth # 0
      THEN PageStep(req, DB, Error(auth, Detail(auth)), dashboards)
      ELSE PageStep(req, db, Returned(req), PageRefresh(dashboards, db, <<g, c>>, TRUE))

\* DELETE /grimoire/..., DELETE /grimoire/.../chapter/..., DELETE .../plot/...
PageDelete ==
    \E op \in {"delete_plot", "delete_chapter", "delete_grimoire"},
       g \in PageGrimoireNames, c \in PageChapterNames, p \in PagePlotNames,
       secret \in PageSecrets :
      LET req == [op |-> op, grimoire_name |-> g, chapter_name |-> c,
                  plot_name |-> p, secret |-> secret]
          auth == verify_secret(secret)
          res == DeleteCall(DB, req)
      IN
      IF auth # 0
      THEN PageStep(req, DB, Error(auth, Detail(auth)), dashboards)
      ELSE IF ~res.ok
           THEN PageStep(req, DB, Error(404, NotFound(req)), dashboards)
           ELSE PageStep(req, res.db, Returned(req),
                         PageFullRefresh(dashboards, res.db))

\* _confirm_delete.do_delete from the delete badge of a grimoire tab or of a
\* chapter tab of page i: delete_fn(name), then dashboard_ui.refresh().
PageDeleteTab ==
    \E i \in DOMAIN dashboards.pages :
      \/ \E g \in dashboards.pages[i].tabs :
           LET db == delete_grimoire(DB, g).db IN
           PageStep([op |-> "ui_delete_grimoire", grimoire_name |-> g], db,
                    response, PageFullRefresh(dashboards, db))
      \/ \E k \in DOMAIN dashboards.pages[i].grids :
           LET db == delete_chapter(DB, k[1], k[2]).db IN
           PageStep([op |-> "ui_delete_chapter", grimoire_name |-> k[1],
                     chapter_name |-> k[2]], db,
                    response, PageFullRefresh(dashboards, db))

\* _confirm_delete.do_delete from the delete badge of a plot shown on page i:
\* delete_plot, then on_deleted refreshes that chapter's grid.
PageDeletePlot ==
    \E i \in DOMAIN dashboards.pages :
      \E k \in DOMAIN dashboards.pages[i].grids :
        \E r \in dashboards.pages[i].grids[k] :
          LET db == delete_plot(DB, k[1], k[2], r.name).db IN
          PageStep([op |-> "ui_delete_plot", grimoire_name |-> k[1],
                    chapter_name |-> k[2], plot_name |-> r.name], db,
                   response, PageRefresh(dashboards, db, k, FALSE))

\* GET /: page() runs dashboard_ui for the new page.
PageOpen ==
    /\ Len(dashboards.pages) < MaxDashboards
    /\ dashboards' = [pages |-> Append(dashboards.pages, PageRender(DB)),
                      owner |-> [k \in dashboard_ui(DB) |->
                                   Len(dashboards.pages) + 1]]
    /\ chapter_plot_refreshables' = dashboard_ui(DB)
    /\ pages' = pages + 1
    /\ UNCHANGED <<grimoire, chapter, plot, now, request, response, refresh,
                   stepvars, client, render, threads>>

PageNext ==
    \/ PageAddPlot
    \/ PageDelete
    \/ PageDeleteTab
    \/ PageDeletePlot
    \/ PageOpen

PageSpec == Init /\ [][PageNext]_vars

\* ---------------------------------------------------------------- claims

\* This step handled a request (request', response' and refresh' are its own).
Handled == now' = now + 1

\* The step handled a request of kind op and answered status.
Answered(op, status) ==
    Handled /\ request'.op = op /\ response'.status = status

SameKey(r1, r2) ==
    /\ r1.name = r2.name
    /\ r1.chapter_name = r2.chapter_name
    /\ r1.grimoire_name = r2.grimoire_name

OnePlotRowPerKey == \A r1, r2 \in plot : SameKey(r1, r2) => r1 = r2

C1_Step ==
    Answered("add_plot", 200) =>
      LET g == request'.grimoire_name
          c == request'.chapter_name
          p == request'.plot_name
          existed == GetPlot(DB, g, c, p) # {}
      IN
      /\ OnePlotRowPerKey'
      /\ grimoire' = grimoire \cup {Grimoire(g)}
      /\ chapter' = chapter \cup {Chapter(c, g)}
      /\ Cardinality(GetPlot(DB', g, c, p)) = 1
      /\ \A r \in GetPlot(DB', g, c, p) : r.json_data = request'.json_data
      /\ existed => /\ grimoire' = grimoire
                    /\ chapter' = chapter
                    /\ Cardinality(plot') = Cardinality(plot)
      /\ ~existed => Cardinality(plot') = Cardinality(plot) + 1

\* C1: storage holds at most one Plot row per (grimoire_name, chapter_name,
\* plot_name): a successful add_plot leaves the Grimoire, the Chapter and
\* exactly one Plot row of its key, holding the request's json_data; when the
\* key existed already, no Grimoire, Chapter or Plot row is added.
C1_OneRowPerKey == [][C1_Step]_vars

\* C1 witness: a successful add_plot found the row of its key, created by an
\* earlier request, and the row holds the payload of the later request.
C1_Witness ==
    /\ request.op = "add_plot"
    /\ response.status = 200
    /\ \E r \in plot :
         /\ SameKey(r, [name |-> request.plot_name,
                        chapter_name |-> request.chapter_name,
                        grimoire_name |-> request.grimoire_name])
         /\ r.created_at < request.at
         /\ r.json_data = request.json_data

\* C2 (as claimed): an add_plot on a key that exists leaves the row with the
\* request's json_data and with created_at equal to the time of this write.
C2_TimestampOverwritten ==
    [][Answered("add_plot", 200) =>
         LET g == request'.grimoire_name
             c == request'.chapter_name
             p == request'.plot_name
         IN GetPlot(DB, g, c, p) # {} =>
              \A r \in GetPlot(DB', g, c, p) :
                 /\ r.json_data = request'.json_data
                 /\ r.created_at = request'.at]_vars

MutatingOps == {"add_plot", "delete_plot", "delete_chapter", "delete_grimoire"}

\* C3: a mutating endpoint answers 401 when the grimoire-secret header is
\* absent, 403 when it is present and differs from the configured secret, and
\* neither when it equals the secret; storage changes only in a request whose
\* header equals the secret.
C3_SecretRequired ==
    [][Handled =>
         /\ request'.op \in MutatingOps
         /\ request'.secret = None => response'.status = 401
         /\ request'.secret \notin {None, GRIMOIRE_SECRET} => response'.status = 403
         /\ request'.secret = GRIMOIRE_SECRET => response'.status \in {200, 404}
         /\ DB' # DB => request'.secret = GRIMOIRE_SECRET]_vars

\* C3 witness: a delete of an existing grimoire was sent with a wrong secret
\* and answered 403.
C3_Witness ==
    /\ request.op = "delete_grimoire"
    /\ request.secret = "wrong-secret"
    /\ response.status = 403
    /\ GetGrimoire(DB, request.grimoire_name) # {}

\* C4: a request answered 401 or 403 leaves the three tables as they were,
\* issues no UI refresh and leaves the registry of refreshables alone.
C4_RejectedChangesNothing ==
    [][(Handled /\ response'.status \in {401, 403}) =>
         /\ DB' = DB
         /\ refresh' = NoRefresh
         /\ chapter_plot_refreshables' = chapter_plot_refreshables]_vars

\* C4 witness: an add_plot for a key that is not in storage was rejected with
\* 401 while a dashboard page was open and other rows existed.
C4_Witness ==
    /\ request.op = "add_plot"
    /\ response.status = 401
    /\ GetGrimoire(DB, request.grimoire_name) = {}
    /\ plot # {}
    /\ pages > 0

\* The Plot rows of storage db under grimoire g, and under chapter (g, c).
PlotsOfGrimoire(db, g) == {r \in db.plot : r.grimoire_name = g}
PlotsOfChapter(db, g, c) == {r \in PlotsOfGrimoire(db, g) : r.chapter_name = c}

\* C5: delete_plot(g, c, p) on an existing chart succeeds and removes that
\* one Plot row; every other Plot row, every Chapter row and every Grimoire
\* row stays as it was.
C5_DeletePlotOnlyThatPlot ==
    [][(Handled /\ request'.op = "delete_plot"
                /\ request'.secret = GRIMOIRE_SECRET
                /\ GetPlot(DB, request'.grimoire_name, request'.chapter_name,
                           request'.plot_name) # {}) =>
         LET key == [name |-> request'.plot_name,
                     chapter_name |-> request'.chapter_name,
                     grimoire_name |-> request'.grimoire_name]
         IN
         /\ response' = Success("deleted", request'.plot_name)
         /\ plot' = {r \in plot : ~SameKey(r, key)}
         /\ Cardinality(plot') = Cardinality(plot) - 1
         /\ chapter' = chapter
         /\ grimoire' = grimoire]_vars

\* C5 witness: a chart was deleted while a chart of the same name in another
\* chapter or grimoire, or another chart of its chapter, stays in storage.
C5_Witness ==
    /\ request.op = "delete_plot"
    /\ response.status = 200
    /\ GetPlot(DB, request.grimoire_name, request.chapter_name, request.plot_name) = {}
    /\ \E r \in plot :
         \/ /\ r.name = request.plot_name
            /\ <<r.grimoire_name, r.chapter_name>>
                 # <<request.grimoire_name, request.chapter_name>>
         \/ /\ r.name # request.plot_name
            /\ r.grimoire_name = request.grimoire_name
            /\ r.chapter_name = request.chapter_name

\* C6: delete_chapter(g, c) on an existing chapter succeeds and removes the
\* Chapter row (c, g) and the Plot rows of (g, c), and nothing else.
C6_DeleteChapterCascade ==
    [][(Handled /\ request'.op = "delete_chapter"
                /\ request'.secret = GRIMOIRE_SECRET
                /\ GetChapter(DB, request'.grimoire_name, request'.chapter_name) # {}) =>
         LET g == request'.grimoire_name
             c == request'.chapter_name
         IN
         /\ response' = Success("deleted", c)
         /\ chapter' = chapter \ {Chapter(c, g)}
         /\ Cardinality(chapter') = Cardinality(chapter) - 1
         /\ plot' = plot \ PlotsOfChapter(DB, g, c)
         /\ PlotsOfChapter(DB', g, c) = {}
         /\ grimoire' = grimoire]_vars

\* C6 witness: a chapter holding a plot was deleted; its grimoire remains, and
\* so does a plot of another chapter.
C6_Witness ==
    /\ request.op = "delete_chapter"
    /\ response.status = 200
    /\ now = 3
    /\ GetGrimoire(DB, request.grimoire_name) # {}
    /\ Cardinality(plot) = 1

\* C7: delete_grimoire(g) on an existing grimoire succeeds and removes the
\* Grimoire row g, the Chapter rows of g and the Plot rows of g; afterwards no
\* row refers to g, and the rows of other grimoires are as they were.
C7_DeleteGrimoireCascade ==
    [][(Handled /\ request'.op = "delete_grimoire"
                /\ request'.secret = GRIMOIRE_SECRET
                /\ GetGrimoire(DB, request'.grimoire_name) # {}) =>
         LET g == request'.grimoire_name IN
         /\ response' = Success("deleted", g)
         /\ grimoire' = grimoire \ {Grimoire(g)}
         /\ chapter' = {r \in chapter : r.grimoire_name # g}
         /\ plot' = {r \in plot : r.grimoire_name # g}
         /\ \A r \in grimoire' : r.name # g
         /\ \A r \in chapter' \cup plot' : r.grimoire_name # g]_vars

\* C7 witness: a grimoire with a chapter and a plot was deleted, and the
\* chapter and plot of another grimoire remain.
C7_Witness ==
    /\ request.op = "delete_grimoire"
    /\ response.status = 200
    /\ now = 3
    /\ Cardinality(grimoire) = 1
    /\ Cardinality(chapter) = 1
    /\ Cardinality(plot) = 1

\* The persistence delete that the endpoint of request req calls on storage db.
DeleteOf(db, req) ==
    CASE req.op = "delete_plot" ->
           delete_plot(db, req.grimoire_name, req.chapter_name, req.plot_name)
      [] req.op = "delete_chapter" ->
           delete_chapter(db, req.grimoire_name, req.chapter_name)
      [] req.op = "delete_grimoire" ->
           delete_grimoire(db, req.grimoire_name)

\* The key of delete request req is a row of storage db.
TargetExists(db, req) ==
    CASE req.op = "delete_plot" ->
           \E r \in db.plot : /\ r.name = req.plot_name
                              /\ r.chapter_name = req.chapter_name
                              /\ r.grimoire_name = req.grimoire_name
      [] req.op = "delete_chapter" ->
           Chapter(req.chapter_name, req.grimoire_name) \in db.chapter
      [] req.op = "delete_grimoire" ->
           Grimoire(req.grimoire_name) \in db.grimoire

\* C8: a delete whose key is not in storage returns false, its endpoint
\* answers 404, storage is unchanged and no refresh is issued.
C8_DeleteMissing ==
    [][(Handled /\ request'.op \in {"delete_plot", "delete_chapter", "delete_grimoire"}
                /\ request'.secret = GRIMOIRE_SECRET
                /\ ~TargetExists(DB, request')) =>
         /\ ~DeleteOf(DB, request').ok
         /\ response'.status = 404
         /\ DB' = DB
         /\ refresh' = NoRefresh
         /\ chapter_plot_refreshables' = chapter_plot_refreshables]_vars

\* C8 witness: a chart whose chapter is absent was deleted with the right
\* secret and answered 404, with other rows in storage and a page open.
C8_Witness ==
    /\ request.op = "delete_plot"
    /\ request.secret = GRIMOIRE_SECRET
    /\ response.status = 404
    /\ GetChapter(DB, request.grimoire_name, request.chapter_name) = {}
    /\ plot # {}
    /\ pages > 0

\* C9: a successful add_plot keeps every Plot row of another key as it was,
\* keeps every Chapter and Grimoire row, and leaves its own chapter with one
\* Plot row per plot name: the names it had before and the name pushed.
C9_SiblingsKept ==
    [][Answered("add_plot", 200) =>
         LET g == request'.grimoire_name
             c == request'.chapter_name
             p == request'.plot_name
         IN
         /\ \A r \in plot : r \notin GetPlot(DB, g, c, p) => r \in plot'
         /\ chapter \subseteq chapter'
         /\ grimoire \subseteq grimoire'
         /\ {r.name : r \in PlotsOfChapter(DB', g, c)}
              = {r.name : r \in PlotsOfChapter(DB, g, c)} \cup {p}
         /\ Cardinality(PlotsOfChapter(DB', g, c))
              = Cardinality({r.name : r \in PlotsOfChapter(DB', g, c)})
         /\ {r.name : r \in GrimoireChapters(DB', Grimoire(g))}
              = {r.name : r \in GrimoireChapters(DB, Grimoire(g))} \cup {c}]_vars

\* C9 witness: two plot names under one chapter and two chapters under one
\* grimoire, after three pushes.
C9_Witness ==
    /\ request.op = "add_plot"
    /\ response.status = 200
    /\ Cardinality(grimoire) = 1
    /\ Cardinality(chapter) = 2
    /\ Cardinality(plot) = 3
    /\ \E r1, r2 \in plot : r1.chapter_name = r2.chapter_name /\ r1.name # r2.name

\* The Plot rows that request req does not address: those of another key for
\* add_plot and delete_plot, of another chapter for delete_chapter, of another
\* grimoire for delete_grimoire.
Outside(db, req) ==
    CASE req.op \in {"add_plot", "delete_plot"} ->
           {r \in db.plot : ~SameKey(r, [name |-> req.plot_name,
                                         chapter_name |-> req.chapter_name,
                                         grimoire_name |-> req.grimoire_name])}
      [] req.op = "delete_chapter" ->
           {r \in db.plot : <<r.grimoire_name, r.chapter_name>>
                              # <<req.grimoire_name, req.chapter_name>>}
      [] req.op = "delete_grimoire" ->
           {r \in db.plot : r.grimoire_name # req.grimoire_name}

\* C10: rows are scoped by their full key: a handled add_plot or delete keeps
\* every Plot row it does not address, with its json_data, and a chapter grid
\* rendered by the refresh of the request shows the Plot rows of storage whose
\* grimoire_name and chapter_name are the grid's key, and no other.
C10_CompositeKeyScope ==
    [][Handled =>
         /\ Outside(DB, request') = Outside(DB', request')
         /\ \A k \in DOMAIN refresh'.grids :
              refresh'.grids[k] = PlotsOfChapter(DB', k[1], k[2])]_vars

\* C10 witness: the same chapter and plot name are stored under two grimoires
\* with different payloads, and the push to one of them rendered its grid.
C10_Witness ==
    /\ request.op = "add_plot"
    /\ response.status = 200
    /\ refresh.kind = "chapter"
    /\ \E r1, r2 \in plot :
         /\ r1.name = r2.name
         /\ r1.chapter_name = r2.chapter_name
         /\ r1.grimoire_name # r2.grimoire_name
         /\ r1.json_data # r2.json_data
         /\ r1.grimoire_name = request.grimoire_name
         /\ r1 \in refresh.grids[<<request.grimoire_name, request.chapter_name>>]

\* C11: a POST /add_plot sent with the secret is answered 200 with
\* {status: "success", plot_name: the request's plot_name} whatever string
\* json_data is, JSON or not, and the Plot row of the key then holds exactly
\* that string.
C11_PayloadVerbatim ==
    [][(Handled /\ request'.op = "add_plot" /\ request'.secret = GRIMOIRE_SECRET) =>
         /\ response' = [status |-> 200,
                         body |-> [status |-> "success", field |-> "plot_name",
                                   value |-> request'.plot_name]]
         /\ \E r \in plot' :
              /\ r.name = request'.plot_name
              /\ r.chapter_name = request'.chapter_name
              /\ r.grimoire_name = request'.grimoire_name
              /\ r.json_data = request'.json_data]_vars

\* C11 witness: a payload that is not JSON was pushed, answered 200 and is in
\* storage as it was sent.
C11_Witness ==
    /\ request.op = "add_plot"
    /\ request.json_data = "not json"
    /\ response.status = 200
    /\ response.body.value = request.plot_name
    /\ \E r \in plot : r.name = request.plot_name /\ r.json_data = "not json"

\* C13: a Grimoire row leaves storage only in a successful delete_grimoire of
\* its name, and a Chapter row only in a successful delete_chapter of its key
\* or delete_grimoire of its grimoire; a delete_plot, also of the last plot of
\* a chapter, removes neither, and a delete_chapter, also of the last chapter,
\* removes no Grimoire row.
C13_ParentsRemovedOnlyByDelete ==
    [][/\ \A gr \in grimoire \ grimoire' :
            /\ Answered("delete_grimoire", 200)
            /\ request'.grimoire_name = gr.name
       /\ \A ch \in chapter \ chapter' :
            \/ /\ Answered("delete_chapter", 200)
               /\ request'.grimoire_name = ch.grimoire_name
               /\ request'.chapter_name = ch.name
            \/ /\ Answered("delete_grimoire", 200)
               /\ request'.grimoire_name = ch.grimoire_name]_vars

\* C13 witness: the only plot of the only chapter was deleted; the Chapter row
\* and the Grimoire row are still there.
C13_Witness ==
    /\ request.op = "delete_plot"
    /\ response.status = 200
    /\ plot = {}
    /\ Chapter(request.chapter_name, request.grimoire_name) \in chapter
    /\ Grimoire(request.grimoire_name) \in grimoire

\* The rows of storage db without the created_at column.
KeyAndPayload(db) ==
    [grimoire |-> db.grimoire, chapter |-> db.chapter,
     plot |-> {[name |-> r.name, chapter_name |-> r.chapter_name,
                grimoire_name |-> r.grimoire_name, json_data |-> r.json_data] :
               r \in db.plot}]

\* C14: after a successful add_plot the row of the key holds the payload of
\* this (the last) call, whatever it held before, and the same call made once
\* more would leave the same rows with the same json_data.
C14_Idempotent ==
    [][Answered("add_plot", 200) =>
         LET g == request'.grimoire_name
             c == request'.chapter_name
             p == request'.plot_name
             j == request'.json_data
         IN
         /\ {r.json_data : r \in GetPlot(DB', g, c, p)} = {j}
         /\ KeyAndPayload(add_plot(DB', g, c, p, j, now')) = KeyAndPayload(DB')
         /\ (request.op = "add_plot" /\ response.status = 200
               /\ request.grimoire_name = g /\ request.chapter_name = c
               /\ request.plot_name = p /\ request.json_data = j)
              => KeyAndPayload(DB') = KeyAndPayload(DB)]_vars

\* C14 witness: the third request pushed a key whose row was created by the
\* first request; the single row in storage holds the payload of the third.
C14_Witness ==
    /\ request.op = "add_plot"
    /\ response.status = 200
    /\ request.at = 2
    /\ plot = {Plot(request.plot_name, request.chapter_name, request.grimoire_name,
                    request.json_data, 0)}

Integrity(db) ==
    /\ \A ch \in db.chapter : \E gr \in db.grimoire : gr.name = ch.grimoire_name
    /\ \A r \in db.plot :
         \E ch \in db.chapter : /\ ch.name = r.chapter_name
                                /\ ch.grimoire_name = r.grimoire_name

\* C12: with requests handled one at a time, every Chapter row's Grimoire row
\* exists and every Plot row's Chapter row exists, after each request and
\* after each commit inside add_plot: the Grimoire is committed before the
\* Chapter and the Chapter before the Plot.
C12_ParentsExist ==
    /\ Integrity(DB)
    /\ At("chapter") => \E gr \in grimoire : gr.name = request.grimoire_name
    /\ At("plot") =>
         \E ch \in chapter : /\ ch.name = request.chapter_name
                             /\ ch.grimoire_name = request.grimoire_name

\* C12 witness: add_plot has committed a new Grimoire and a new Chapter and is
\* about to write the Plot, which storage does not hold yet.
C12_Witness ==
    /\ At("plot")
    /\ log = <<"commit_grimoire", "commit_chapter">>
    /\ plot = {}

\* The handler of the request in flight takes this step.
HandlerStep == pc # 0 /\ <<pc, attempt, log, response>>' # <<pc, attempt, log, response>>

\* C15: the handler wrapped by retry_on_db_error(max_retries=5) is called at
\* most 5 times for one request; every step of it ends the request or moves on
\* in the current attempt or starts the next attempt, so it ends; a return
\* ends the request with 200 and no further attempt; and a server error is
\* the answer to POST /add_plot only when the 5th attempt raised.
C15_RetryBudget ==
    [][/\ attempt' <= max_retries
       /\ HandlerStep =>
            \/ pc' = 0 /\ attempt' = attempt
            \/ pc' = pc + 1 /\ attempt' = attempt
            \/ pc' = 1 /\ attempt' = attempt + 1
       /\ (HandlerStep /\ At("return")) =>
            pc' = 0 /\ response'.status = 200 /\ attempt' = attempt /\ slept' = slept
       /\ (HandlerStep /\ request.op = "add_plot" /\ response'.status = 500) =>
            pc' = 0 /\ attempt = max_retries
       /\ (HandlerStep /\ request.op = "add_plot" /\ attempt' = attempt + 1) =>
            attempt < max_retries /\ response' = response]_vars

\* C15 witness: all 5 attempts of a POST /add_plot raised and the request was
\* answered with a server error.
C15_Witness ==
    /\ pc = 0
    /\ request.op = "add_plot"
    /\ response.status = 500
    /\ attempt = 5
    /\ Len(slept) = 4

\* C16: a request answered 401, 403 or 404 ran its handler once and slept
\* never, and a delete endpoint runs its handler once per request whatever
\* the outcome.
C16_HttpErrorsNotRetried ==
    /\ (pc = 0 /\ response.status \in {401, 403, 404}) =>
         attempt = 1 /\ slept = << >>
    /\ request.op \in {"delete_plot", "delete_chapter", "delete_grimoire"} =>
         attempt = 1 /\ slept = << >>

\* C16 witness: a POST /add_plot with a wrong secret was answered 403 on its
\* first attempt, without a sleep.
C16_Witness ==
    /\ pc = 0
    /\ request.op = "add_plot"
    /\ response.status = 403
    /\ attempt = 1
    /\ slept = << >>

\* The refresh events among the events es.
Refreshes(es) == SelectSeq(es, LAMBDA e : e \in {"refresh_chapter", "refresh_full"})

\* C17: after the upsert of POST /add_plot the refresh statement issues one
\* refresh, the targeted one when the (grimoire, chapter) key is in the
\* registry and the full one otherwise, and an attempt that returns has
\* issued exactly one.
C17_ExactlyOneRefresh ==
    [][/\ (HandlerStep /\ At("refresh") /\ request.op = "add_plot" /\ log' # << >>) =>
            Refreshes(log') =
              <<IF <<request.grimoire_name, request.chapter_name>>
                     \in chapter_plot_refreshables
                THEN "refresh_chapter" ELSE "refresh_full">>
       /\ (pc' # 0 /\ request'.op = "add_plot"
             /\ Program(request'.op)[pc'] = "return") =>
            Len(Refreshes(log')) = 1]_vars

\* C17 witness: a push to a chapter that an open page renders issued the
\* targeted refresh and no other.
C17_Witness ==
    /\ At("return")
    /\ request.op = "add_plot"
    /\ Refreshes(log) = <<"refresh_chapter">>
    /\ refresh.kind = "chapter"

\* C19: in every attempt of every request a refresh is issued only after the
\* write of that attempt (the commit of the Plot, or of the delete) has
\* committed; an attempt that was rejected, found nothing to delete or failed
\* before its commit issues none.
C19_RefreshAfterCommit ==
    /\ \A i \in DOMAIN log :
         log[i] \in {"refresh_chapter", "refresh_full"} =>
           \E j \in 1..(i - 1) : log[j] \in {"commit_plot", "commit_delete"}
    /\ (pc = 0 /\ response.status \in {401, 403, 404}) =>
         refresh = NoRefresh /\ Refreshes(log) = << >>

\* C19 witness: an add_plot attempt committed Grimoire, Chapter and Plot and
\* then issued the full refresh.
C19_Witness ==
    /\ At("return")
    /\ log = <<"commit_grimoire", "commit_chapter", "commit_plot", "refresh_full">>

\* C20: push_plot_sync and push_plot raise ValueError and send no HTTP
\* request when fig.to_json() returns something that is not a str; otherwise
\* each sends exactly one request, a POST to <server>/add_plot with the
\* grimoire-secret header and the four body fields, and ends by returning the
\* response body when the status is a success and by raising when it is not.
C20_ClientPush ==
    /\ ~IsStr(client.fig) =>
         /\ client.sent = << >>
         /\ client.pc \in {"to_json", "done"}
         /\ client.pc = "done" =>
              client.result = [kind |-> "raised", exc |-> "ValueError"]
    /\ Len(client.sent) <= 1
    /\ \A i \in DOMAIN client.sent :
         LET r == client.sent[i] IN
         /\ r.method = "POST"
         /\ r.url = client.grimoire_server \o "/add_plot"
         /\ DOMAIN r.headers = {"grimoire-secret"}
         /\ r.headers["grimoire-secret"] = client.grimoire_secret
         /\ r.json = [grimoire_name |-> client.grimoire_name,
                      chapter_name |-> client.chapter_name,
                      plot_name |-> client.plot_name,
                      json_data |-> client.fig.value]
    /\ (IsStr(client.fig) /\ client.pc = "done") =>
         /\ Len(client.sent) = 1
         /\ client.response.status \in 200..299 =>
              client.result = [kind |-> "returned", value |-> client.response.body]
         /\ client.response.status \notin 200..299 =>
              client.result.kind = "raised" /\ client.result.exc # "ValueError"

\* C20 witness: the async push_plot sent its one POST, the server answered
\* 403 and the call raised.
C20_Witness ==
    /\ client.pc = "done"
    /\ client.fn = "push_plot"
    /\ Len(client.sent) = 1
    /\ client.response.status = 403
    /\ client.result.kind = "raised"

\* C21: a plot whose stored json_data does not parse as JSON is rendered as
\* the label "Invalid plot data: <name>" in its place in the grid, the
\* JSONDecodeError never leaves the render, and the plots after it are
\* rendered: a grid whose payloads are JSON objects or unparseable strings is
\* rendered whole.
C21_InvalidPlotPlaceholder ==
    render.pc # "idle" =>
      /\ \A i \in DOMAIN render.grid :
           (render.pc # "get" /\ render.plots # << >>
              /\ json_loads(render.plots[i]).raised # None) =>
             render.grid[i] = [kind |-> "label",
                               text |-> "Invalid plot data: " \o RenderNames[i]]
      /\ render.raised # "JSONDecodeError"
      /\ render.raised # None =>
           json_loads(render.plots[Len(render.grid)]).raised = None
      /\ (render.pc = "done"
            /\ \A i \in DOMAIN render.plots :
                 json_loads(render.plots[i]).type \in {None, "dict"}) =>
           /\ render.raised = None
           /\ render.plots # << >> => Len(render.grid) = Len(render.plots)

\* C21 witness: the first plot of the grid did not parse, the placeholder took
\* its place and the second plot was rendered as a chart.
C21_Witness ==
    /\ render.pc = "done"
    /\ render.raised = None
    /\ Len(render.plots) >= 2
    /\ json_loads(render.plots[1]).raised = "JSONDecodeError"
    /\ render.grid[1].kind = "label"
    /\ render.grid[2].kind = "plotly"

\* C22: the sleep between failed attempt k and attempt k + 1 is
\* base_delay * 2^(k-1), each delay is the double of the one before, one
\* sleep precedes every attempt but the first, and no sleep follows the last
\* attempt: a request that failed 5 times slept 1, 2, 4 and 8 base delays.
C22_DelaysDouble ==
    attempt >= 1 =>
      /\ Len(slept) = attempt - 1
      /\ Len(slept) <= max_retries - 1
      /\ \A k \in DOMAIN slept : slept[k] = base_delay * 2 ^ (k - 1)
      /\ \A k \in DOMAIN slept : k > 1 => slept[k] = 2 * slept[k - 1]
      /\ (pc = 0 /\ request.op = "add_plot" /\ response.status = 500) =>
           slept = <<base_delay, 2 * base_delay, 4 * base_delay, 8 * base_delay>>

\* C22 witness: the third attempt is running after sleeps of 1 and 2 base
\* delays.
C22_Witness ==
    /\ pc # 0
    /\ attempt = 3
    /\ slept = <<100, 200>>

\* C23: add_plot writes in one transaction: no commit of an add_plot request
\* leaves storage with a Grimoire or Chapter row that the call created and
\* without the Plot row of the call.
C23_AddPlotOneTransaction ==
    [][(pc # 0 /\ request.op = "add_plot"
          /\ (grimoire' # grimoire \/ chapter' # chapter)) =>
         GetPlot(DB', request.grimoire_name, request.chapter_name,
                 request.plot_name) # {}]_vars

\* C24: the commit of delete_grimoire or delete_chapter removes the parent
\* together with all its descendants: the step that removes a Grimoire row
\* leaves none of its Chapter and Plot rows, the step that removes a Chapter
\* row leaves none of its Plot rows, a step of these requests that removes a
\* descendant removes the parent, and the request commits once.
C24_CascadeInOneCommit ==
    [][/\ \A gr \in grimoire \ grimoire' :
            /\ \A ch \in chapter' : ch.grimoire_name # gr.name
            /\ \A r \in plot' : r.grimoire_name # gr.name
       /\ \A ch \in chapter \ chapter' :
            \A r \in plot' : ~(r.chapter_name = ch.name
                                 /\ r.grimoire_name = ch.grimoire_name)
       /\ (pc # 0 /\ request.op = "delete_grimoire"
             /\ (chapter' # chapter \/ plot' # plot)) =>
            GetGrimoire(DB', request.grimoire_name) = {}
       /\ (pc # 0 /\ request.op = "delete_chapter" /\ plot' # plot) =>
            GetChapter(DB', request.grimoire_name, request.chapter_name) = {}
       /\ (pc # 0 /\ request.op \in {"delete_grimoire", "delete_chapter"}
             /\ DB' # DB) =>
            log = << >> /\ log' = <<"commit_delete">>]_vars

\* C24 witness: delete_grimoire has committed, in its one commit, and no row
\* of the grimoire is left.
C24_Witness ==
    /\ At("refresh")
    /\ request.op = "delete_grimoire"
    /\ log = <<"commit_delete">>
    /\ DB = [grimoire |-> {}, chapter |-> {}, plot |-> {}]

\* C25: every name in storage is a non-empty string: no row has the empty
\* string as its name, chapter_name or grimoire_name.
C25_NamesNonEmpty ==
    /\ \A gr \in grimoire : gr.name # ""
    /\ \A ch \in chapter : ch.name # "" /\ ch.grimoire_name # ""
    /\ \A r \in plot : r.name # "" /\ r.chapter_name # "" /\ r.grimoire_name # ""

\* C26: when the concurrent requests are all POST /add_plot for one key,
\* storage never holds more than one Grimoire, Chapter or Plot row of the
\* key, no request uses more than the 5 attempts, and every request that
\* ends answers success: a request that lost an insert race is retried.
C26_InsertRace ==
    (threads # NoThreads /\ \A t \in DOMAIN threads : threads[t].op = "add_plot") =>
      /\ Cardinality(GetGrimoire(DB, RaceGrimoire)) <= 1
      /\ Cardinality(GetChapter(DB, RaceGrimoire, RaceChapter)) <= 1
      /\ Cardinality(GetPlot(DB, RaceGrimoire, RaceChapter, RacePlot)) <= 1
      /\ \A t \in DOMAIN threads :
           /\ threads[t].attempt <= max_retries
           /\ threads[t].status \in {0, 200}
           /\ threads[t].pc = "done" => threads[t].status = 200

\* C26 witness: two add_plot requests for a key that did not exist have both
\* answered success, one of them after losing an insert race, and storage
\* holds one Plot row.
C26_Witness ==
    /\ threads # NoThreads
    /\ \A t \in DOMAIN threads :
         /\ threads[t].op = "add_plot"
         /\ threads[t].pc = "done"
         /\ threads[t].status = 200
    /\ \E t \in DOMAIN threads : threads[t].attempt > 1
    /\ \A r \in plot : r.json_data # StoredPayload
    /\ Cardinality(plot) = 1

\* C27: whatever the interleaving of add_plot with a delete_grimoire or
\* delete_chapter that commits between two commits of add_plot, storage never holds a Chapter row without its Grimoire row
\* or a Plot row without its Chapter row.
C27_NoOrphanRows ==
    (\E t \in DOMAIN threads :
        /\ threads[t].op \in {"delete_grimoire", "delete_chapter"}
        /\ threads[t].between) =>
      Integrity(DB)

\* C30: a POST /add_plot request writes its payload to the Plot row at most
\* once, over all its attempts.
C30_PayloadAppliedOnce ==
    \A t \in DOMAIN threads : threads[t].writes <= 1

\* C28: with pages open that all render the section, a successful
\* POST /add_plot to the section leaves the grid of that section on every
\* open page showing the plots that storage holds after the write.
C28_EveryPageRefreshed ==
    [][(/\ Answered("add_plot", 200)
        /\ dashboards.pages # << >>
        /\ \A i \in DOMAIN dashboards.pages :
             <<request'.grimoire_name, request'.chapter_name>>
               \in DOMAIN dashboards.pages[i].grids) =>
         \A i \in DOMAIN dashboards'.pages :
           dashboards'.pages[i].grids[<<request'.grimoire_name,
                                        request'.chapter_name>>]
             = PlotsOfChapter(DB', request'.grimoire_name, request'.chapter_name)]_vars

\* The (grimoire_name, chapter_name) pairs of the Chapter rows in storage.
ChapterKeys == {<<ch.grimoire_name, ch.name>> : ch \in chapter}

====
